---- MODULE Spec2Model ----
(***************************************************************************)
(* Model of the weather ETL job of src/weather_etl.py: class WeatherETL    *)
(* (run-state file, Open-Meteo fetch with retries, normalisation and       *)
(* de-duplication of the hourly rows, batched upload to the sheet).        *)
(*                                                                         *)
(* Every invocation of main() is an operating-system process of its own;   *)
(* the processes share the state file etl_state.json and the sheet.        *)
(***************************************************************************)
EXTENDS Integers, Sequences, FiniteSets, TLC

(***************************************************************************)
(* Bounds of the model.                                                    *)
(***************************************************************************)
\* number of invocations of main() in a behaviour
MaxRuns == 2

(***************************************************************************)
(* Program constants.                                                      *)
(***************************************************************************)
max_retries == 3
batch_size == 100
DefaultVisibility == 24000
DefaultWeatherCode == 0
DefaultPrecipitation == 0

\* Python's None as a cell value (a JSON null inside an hourly array)
NoneVal == 0 - 1
\* a JSON null (or any non-list) standing where an hourly array is expected
NullArray == << 0 - 2 >>

\* the invocations that may exist at a time
Procs == {"p1", "p2"}

headers ==
  << "Time", "Temperature_2m", "Humidity_2m",
     "Visibility", "WeatherCode", "Precipitation", "Fetched_At" >>

ARCHIVE == "archive"
FORECAST == "forecast"

VARIABLES
  state_file,          \* content of etl_state.json
  sheet,               \* the rows of the sheet (get_all_values)
  clock,               \* datetime.now(), one tick per invocation
  runs,                \* invocations started so far
  pc,                  \* position of each invocation
  state,               \* run(): local `state`
  state_before,        \* content of etl_state.json when the invocation began
  mode,                \* which branch of run() line 321 was taken
  attempt,             \* fetch_weather_data: loop variable `attempt`
  requests,            \* the requests.get calls of the invocation
  sleeps,              \* fetch_weather_data: durations of its time.sleep calls
  outcomes,            \* fetch_weather_data: what each requests.get met
  weather_data,        \* the parsed body fetch_weather_data returned
  existing_timestamps, \* the set get_existing_timestamps returned
  rows,                \* the rows prepare_data returned
  i,                   \* upload_to_sheets: loop variable `i`
  chunks,              \* lengths of the batches append_rows has written
  io,                  \* the external calls of the invocation, in order
  failed,              \* stages of the invocation that raised or returned an error
  saves,               \* writes of etl_state.json attempted by the invocation
  result               \* what run() returned

vars ==
  << state_file, sheet, clock, runs, pc, state, state_before, mode, attempt,
     requests, sleeps, outcomes, weather_data, existing_timestamps, rows, i,
     chunks, io, failed, saves, result >>

(***************************************************************************)
(* The run-state file.                                                     *)
(***************************************************************************)
StateRecord(first_run, last_run) ==
  [kind |-> "dict", first_run |-> first_run, last_run |-> last_run]

\* no etl_state.json
FileAbsent == [kind |-> "absent", first_run |-> TRUE, last_run |-> 0]
\* etl_state.json is not JSON (empty, truncated, garbage)
FileUnparseable == [kind |-> "unparseable", first_run |-> TRUE, last_run |-> 0]
\* etl_state.json is JSON but not an object (a list, a number, null)
FileNonDict == [kind |-> "nondict", first_run |-> TRUE, last_run |-> 0]

\* load_state's default; last_run 0 is None
DefaultState == StateRecord(TRUE, 0)

load_state(file) ==
  CASE file.kind = "absent" -> DefaultState
    [] file.kind = "unparseable" -> DefaultState
    [] OTHER -> file

(***************************************************************************)
(* Provider responses.                                                     *)
(***************************************************************************)
Time(h) == ToString(h)

Hours(lo, n) == [k \in 1..n |-> Time(lo + k - 1)]

Const(n, v) == [k \in 1..n |-> v]

\* The body of a response, by what the provider put in it: `shape` names the
\* structure, `start` the first hour and `hours` the length of the time series.
Response(shape, start, hours) == [shape |-> shape, start |-> start, hours |-> hours]

\* a complete payload of n hours starting at hour lo
FullPayload(lo, n) ==
  [timezone |-> "Asia/Kolkata",
   hourly |-> [time |-> Hours(lo, n),
               temperature_2m |-> Const(n, 20),
               relative_humidity_2m |-> Const(n, 50),
               visibility |-> Const(n, 10000),
               weathercode |-> Const(n, 3),
               precipitation |-> Const(n, 1)]]

\* hour 1 has no temperature, the last hour no humidity (array one short), the
\* payload has no visibility array and its precipitation values are null
SparsePayload(lo, n) ==
  [timezone |-> "Asia/Kolkata",
   hourly |-> [time |-> Hours(lo, n),
               temperature_2m |-> << NoneVal >> \o Const(n - 1, 20),
               relative_humidity_2m |-> Const(n - 1, 50),
               weathercode |-> Const(n, 3),
               precipitation |-> Const(n, NoneVal)]]

\* "relative_humidity_2m": null
NullArrayPayload(lo, n) ==
  [timezone |-> "Asia/Kolkata",
   hourly |-> [time |-> Hours(lo, n),
               temperature_2m |-> Const(n, 20),
               relative_humidity_2m |-> NullArray,
               visibility |-> Const(n, 10000),
               weathercode |-> Const(n, 3),
               precipitation |-> Const(n, 1)]]

\* a body without "hourly" (the provider's {"error": ..., "reason": ...})
NoHourlyPayload == [error |-> TRUE, reason |-> "reason"]
\* "hourly" without "time"
NoTimePayload == [timezone |-> "Asia/Kolkata", hourly |-> [temperature_2m |-> << 20 >>]]
\* "hourly": {"time": [], ...}
EmptyTimePayload ==
  [timezone |-> "Asia/Kolkata",
   hourly |-> [time |-> << >>, temperature_2m |-> << >>,
               relative_humidity_2m |-> << >>]]

\* response.json(): the parsed body
Json(response) ==
  CASE response.shape = "full" -> FullPayload(response.start, response.hours)
    [] response.shape = "sparse" -> SparsePayload(response.start, response.hours)
    [] response.shape = "null_array" -> NullArrayPayload(response.start, response.hours)
    [] response.shape = "no_hourly" -> NoHourlyPayload
    [] response.shape = "no_time" -> NoTimePayload
    [] OTHER -> EmptyTimePayload

\* the hours a provider response may start at, and how many hours it may
\* have: one batch or two batches of rows
WindowStarts == {1, 2}
WindowLens == {1, batch_size + 1}

\* the shapes without a usable hourly time series
InvalidShapes == {"no_hourly", "no_time", "empty_time"}

\* the bodies the provider may answer a request with (status 200, JSON)
Responses ==
  {Response(shape, 0, 0) : shape \in InvalidShapes}
    \cup {Response("full", lo, n) : lo \in WindowStarts, n \in WindowLens}
    \cup {Response("sparse", 1, n) : n \in WindowLens}
    \cup {Response("null_array", 2, 1)}

\* the parsed bodies of Responses
Bodies == [response \in Responses |-> Json(response)]

\* what requests.get (a timeout; a connection error is raised and caught the
\* same way) and raise_for_status raise
TransientErrors == {"timeout", "http5xx"}
HttpErrors == TransientErrors \cup {"http4xx"}

(***************************************************************************)
(* fetch_weather_data: validation of the parsed body (line 130).           *)
(***************************************************************************)
\* dict.get(key, []) of the hourly section
Get(hourly, key) == IF key \in DOMAIN hourly THEN hourly[key] ELSE << >>

\* Python truthiness of hourly.get("time"): a non-empty list
Truthy(array) == array # << >>

ValidResponse(data) ==
  ~ ("hourly" \notin DOMAIN data \/ ~ Truthy(Get(data.hourly, "time")))

(***************************************************************************)
(* get_existing_timestamps (lines 62-74).                                  *)
(***************************************************************************)
\* get_existing_timestamps skipping two rows instead of the header row
get_existing_timestamps_SkipsTwo(all_values) ==
  IF all_values = << >>
    THEN {}
    ELSE {all_values[r][1] : r \in {q \in 3..Len(all_values) :
                                       /\ all_values[q] # << >>
                                       /\ all_values[q][1] # ""}}

get_existing_timestamps(all_values) ==
  IF all_values = << >>
    THEN {}
    ELSE {all_values[r][1] : r \in {q \in 2..Len(all_values) :
                                       /\ all_values[q] # << >>
                                       /\ all_values[q][1] # ""}}

(***************************************************************************)
(* prepare_data (lines 148-215).                                           *)
(***************************************************************************)
\* `xs[i] if i < len(xs) else None`, with the model's 1-based index
At(xs, k) == IF k <= Len(xs) THEN xs[k] ELSE NoneVal

\* Dedup with the test of line 178 inverted
Dedup_KeepsExisting(times, existing) ==
  SelectSeq([k \in 1..Len(times) |-> k], LAMBDA k : times[k] \in existing)

\* lines 178-180: the de-duplication filter over the time series
Dedup(times, existing) ==
  SelectSeq([k \in 1..Len(times) |-> k], LAMBDA k : times[k] \notin existing)

\* Complete with `and` for the `or` of line 190: one of the two values suffices
Complete_EitherPresent(hourly, k) ==
  ~ (/\ At(Get(hourly, "temperature_2m"), k) = NoneVal
     /\ At(Get(hourly, "relative_humidity_2m"), k) = NoneVal)

\* lines 183-193: the record of index k is kept
Complete(hourly, k) ==
  ~ (\/ At(Get(hourly, "temperature_2m"), k) = NoneVal
     \/ At(Get(hourly, "relative_humidity_2m"), k) = NoneVal)

\* OrDefault without the substitution: the provider's null is kept
OrDefault_KeepsNone(v, d) == v

OrDefault(v, d) == IF v # NoneVal THEN v ELSE d

\* lines 196-208
Row(hourly, k, fetched_at) ==
  << hourly.time[k],
     At(Get(hourly, "temperature_2m"), k),
     At(Get(hourly, "relative_humidity_2m"), k),
     OrDefault(At(Get(hourly, "visibility"), k), DefaultVisibility),
     OrDefault(At(Get(hourly, "weathercode"), k), DefaultWeatherCode),
     OrDefault(At(Get(hourly, "precipitation"), k), DefaultPrecipitation),
     fetched_at >>

DataKeys ==
  {"temperature_2m", "relative_humidity_2m", "visibility", "weathercode",
   "precipitation"}

\* len() of a null array raises TypeError; it is evaluated for the first
\* index that is not skipped as a duplicate (lines 183-187)
PrepareRaises(hourly, existing) ==
  \/ ~ Truthy(Get(hourly, "time"))
  \/ /\ Dedup(hourly.time, existing) # << >>
     /\ \E key \in DataKeys : Get(hourly, key) = NullArray

\* [ok |-> FALSE] is the None of line 215
prepare_data(data, existing, fetched_at) ==
  IF PrepareRaises(data.hourly, existing)
    THEN [ok |-> FALSE, rows |-> << >>]
    ELSE LET kept == SelectSeq(Dedup(data.hourly.time, existing),
                               LAMBDA k : Complete(data.hourly, k))
         IN [ok |-> TRUE,
             rows |-> [r \in 1..Len(kept) |-> Row(data.hourly, kept[r], fetched_at)]]

(***************************************************************************)
(* The initial state: nothing has run, the sheet is empty, and the state   *)
(* file is whatever the deployment left there.                             *)
(***************************************************************************)
\* weather_data before fetch_weather_data has returned
NoData == [timezone |-> "none"]

\* no invocation has left anything behind but the state file and the sheet
NoProcess ==
  /\ pc = [p \in Procs |-> "idle"]
  /\ state = [p \in Procs |-> DefaultState]
  /\ state_before = [p \in Procs |-> FileAbsent]
  /\ mode = [p \in Procs |-> "none"]
  /\ attempt = [p \in Procs |-> 0]
  /\ requests = [p \in Procs |-> << >>]
  /\ sleeps = [p \in Procs |-> << >>]
  /\ outcomes = [p \in Procs |-> << >>]
  /\ weather_data = [p \in Procs |-> NoData]
  /\ existing_timestamps = [p \in Procs |-> {}]
  /\ rows = [p \in Procs |-> << >>]
  /\ i = [p \in Procs |-> 0]
  /\ chunks = [p \in Procs |-> << >>]
  /\ io = [p \in Procs |-> << >>]
  /\ failed = [p \in Procs |-> {}]
  /\ saves = [p \in Procs |-> 0]
  /\ result = [p \in Procs |-> "none"]

Init ==
  /\ state_file \in {FileAbsent, FileUnparseable, FileNonDict}
  /\ sheet = << >>
  /\ clock = 0
  /\ runs = 0
  /\ NoProcess

fetch_vars == << attempt, requests, sleeps, outcomes, weather_data >>
upload_vars == << i, chunks >>
prepare_vars == << existing_timestamps, rows >>
begin_vars == << state, state_before, mode >>

\* run() returns False (lines 317, 274, 297, 253) and main exits with status 1
ReturnFalse(p, stage) ==
  /\ failed' = [failed EXCEPT ![p] = @ \cup {stage}]
  /\ result' = [result EXCEPT ![p] = "failure"]
  /\ pc' = [pc EXCEPT ![p] = "done"]

(***************************************************************************)
(* main / run, lines 308-313: a new invocation starts and loads the state. *)
(***************************************************************************)
RunStart(p) ==
  /\ pc[p] = "idle"
  /\ runs < MaxRuns
  /\ runs' = runs + 1
  /\ clock' = clock + 1
  /\ state' = [state EXCEPT ![p] = load_state(state_file)]
  /\ state_before' = [state_before EXCEPT ![p] = state_file]
  /\ pc' = [pc EXCEPT ![p] = "setup"]
  /\ UNCHANGED << state_file, sheet, mode, fetch_vars, prepare_vars,
                  upload_vars, io, failed, saves, result >>

(***************************************************************************)
(* setup_google_sheets (lines 79-95) and the branch of run() line 321.     *)
(***************************************************************************)
SetupFails(p) ==
  /\ pc[p] = "setup"
  /\ ReturnFalse(p, "setup")
  /\ UNCHANGED << state_file, sheet, clock, runs, begin_vars, fetch_vars,
                  prepare_vars, upload_vars, io, saves >>

\* state.get("first_run", True) on a value that is no dict raises
\* AttributeError, which nothing catches: the process dies with a traceback
SetupOkCrash(p) ==
  /\ pc[p] = "setup"
  /\ state[p].kind # "dict"
  /\ result' = [result EXCEPT ![p] = "crashed"]
  /\ pc' = [pc EXCEPT ![p] = "done"]
  /\ UNCHANGED << state_file, sheet, clock, runs, begin_vars, fetch_vars,
                  prepare_vars, upload_vars, io, failed, saves >>

SetupOk(p) ==
  /\ pc[p] = "setup"
  /\ state[p].kind = "dict"
  /\ mode' = [mode EXCEPT ![p] =
                IF state[p].first_run THEN "initial" ELSE "incremental"]
  /\ attempt' = [attempt EXCEPT ![p] = 0]
  /\ pc' = [pc EXCEPT ![p] = "fetch"]
  /\ UNCHANGED << state_file, sheet, clock, runs, state, state_before,
                  requests, sleeps, outcomes, weather_data,
                  prepare_vars, upload_vars, io, failed, saves, result >>

(***************************************************************************)
(* fetch_weather_data (lines 97-146), one action per pass of the loop.     *)
(***************************************************************************)
\* datetime.now().date() as a day number
Today == clock + 10

\* FetchArgs with a start date one day late: a window of six days
FetchArgs_SixDays(p) ==
  IF mode[p] = "initial"
    THEN [start_date |-> (Today - 1) - 5, end_date |-> Today - 1, forecast_days |-> 1]
    ELSE [start_date |-> 0, end_date |-> 0, forecast_days |-> 2]

\* the arguments run_initial_load (lines 260-270) and run_incremental_update
\* (line 293) pass; 0 is None
FetchArgs(p) ==
  IF mode[p] = "initial"
    THEN [start_date |-> (Today - 1) - 6, end_date |-> Today - 1, forecast_days |-> 1]
    ELSE [start_date |-> 0, end_date |-> 0, forecast_days |-> 2]

\* Request with the archive branch never taken
Request_AlwaysForecast(args) ==
  [url |-> FORECAST, start_date |-> 0, end_date |-> 0,
   forecast_days |-> args.forecast_days]

\* lines 108-120
Request(args) ==
  IF args.start_date # 0 /\ args.end_date # 0
    THEN [url |-> ARCHIVE, start_date |-> args.start_date,
          end_date |-> args.end_date, forecast_days |-> 0]
    ELSE [url |-> FORECAST, start_date |-> 0, end_date |-> 0,
          forecast_days |-> args.forecast_days]

\* line 125
Get_(p) ==
  /\ pc[p] = "fetch"
  /\ requests' = [requests EXCEPT ![p] = Append(@, Request(FetchArgs(p)))]
  /\ io' = [io EXCEPT ![p] = Append(@, "get")]

\* ExceptRequestException with `attempt < max_retries`: one retry too many
ExceptRequestException_OneMore(p, err) ==
  /\ outcomes' = [outcomes EXCEPT ![p] = Append(@, err)]
  /\ IF attempt[p] < max_retries
       THEN /\ sleeps' = [sleeps EXCEPT ![p] = Append(@, 2 ^ attempt[p])]
            /\ attempt' = [attempt EXCEPT ![p] = @ + 1]
            /\ UNCHANGED << pc, failed, result >>
       ELSE /\ ReturnFalse(p, "fetch")
            /\ UNCHANGED << sleeps, attempt >>

\* lines 137-143
ExceptRequestException(p, err) ==
  /\ outcomes' = [outcomes EXCEPT ![p] = Append(@, err)]
  /\ IF attempt[p] < max_retries - 1
       THEN /\ sleeps' = [sleeps EXCEPT ![p] = Append(@, 2 ^ attempt[p])]
            /\ attempt' = [attempt EXCEPT ![p] = @ + 1]
            /\ UNCHANGED << pc, failed, result >>
       ELSE /\ ReturnFalse(p, "fetch")
            /\ UNCHANGED << sleeps, attempt >>

\* ExceptValueError handled like a RequestException: the request is retried
ExceptValueError_Retries(p, err) == ExceptRequestException(p, err)

\* lines 144-146
ExceptValueError(p, err) ==
  /\ outcomes' = [outcomes EXCEPT ![p] = Append(@, err)]
  /\ ReturnFalse(p, "fetch")
  /\ UNCHANGED << sleeps, attempt >>

\* requests.get or raise_for_status raises (timeout, connection error, 4xx, 5xx)
FetchHttpError(p) ==
  /\ Get_(p)
  /\ \E err \in HttpErrors : ExceptRequestException(p, err)
  /\ UNCHANGED << state_file, sheet, clock, runs, begin_vars, weather_data,
                  prepare_vars, upload_vars, saves >>

\* response.json() raises: requests.exceptions.JSONDecodeError (requests from
\* 2.27 on; a RequestException and a ValueError, so line 137 catches it), or
\* the json module's JSONDecodeError (earlier versions; a ValueError only)
FetchBadJson(p) ==
  /\ Get_(p)
  /\ \/ ExceptRequestException(p, "bad_json")
     \/ ExceptValueError(p, "bad_json")
  /\ UNCHANGED << state_file, sheet, clock, runs, begin_vars, weather_data,
                  prepare_vars, upload_vars, saves >>

\* lines 130-132
FetchInvalid(p) ==
  /\ Get_(p)
  /\ \E response \in Responses :
       /\ ~ ValidResponse(Bodies[response])
       /\ ExceptValueError(p, response.shape)
  /\ UNCHANGED << state_file, sheet, clock, runs, begin_vars, weather_data,
                  prepare_vars, upload_vars, saves >>

\* lines 134-136
FetchOk(p) ==
  /\ Get_(p)
  /\ \E response \in Responses :
       /\ ValidResponse(Bodies[response])
       /\ weather_data' = [weather_data EXCEPT ![p] = Bodies[response]]
       /\ outcomes' = [outcomes EXCEPT ![p] = Append(@, response.shape)]
  /\ pc' = [pc EXCEPT ![p] = "read"]
  /\ UNCHANGED << state_file, sheet, clock, runs, begin_vars, attempt, sleeps,
                  prepare_vars, upload_vars, failed, saves, result >>

(***************************************************************************)
(* run_initial_load lines 276-286 / run_incremental_update lines 299-306:  *)
(* get_existing_timestamps, prepare_data, and the way to upload_to_sheets. *)
(***************************************************************************)
\* Prepare without the `not rows` tests: upload_to_sheets goes on with no rows
Prepare_AlwaysUploads(p, existing, read_ok) ==
  \E prepared \in {prepare_data(weather_data[p], existing, clock)} :
     /\ existing_timestamps' = [existing_timestamps EXCEPT ![p] = existing]
     /\ rows' = [rows EXCEPT ![p] = prepared.rows]
     /\ pc' = [pc EXCEPT ![p] = "header"]
     /\ io' = [io EXCEPT ![p] = Append(@, "get_all_values")]
     /\ failed' = [failed EXCEPT ![p] =
                     (@ \cup (IF read_ok THEN {} ELSE {"read"}))
                        \cup (IF prepared.ok THEN {} ELSE {"prepare"})]
     /\ attempt' = [attempt EXCEPT ![p] = 0]
     /\ sleeps' = [sleeps EXCEPT ![p] = << >>]
     /\ outcomes' = [outcomes EXCEPT ![p] = << >>]

\* prepare_data and the `not rows` of lines 281 and 220 (None and [] alike):
\* with no rows both branches return True without touching the sheet
Prepare(p, existing, read_ok) ==
  \E prepared \in {prepare_data(weather_data[p], existing, clock)} :
     /\ existing_timestamps' = [existing_timestamps EXCEPT ![p] = existing]
     /\ rows' = [rows EXCEPT ![p] = prepared.rows]
     /\ pc' = [pc EXCEPT ![p] = IF prepared.rows = << >> THEN "save" ELSE "header"]
     /\ io' = [io EXCEPT ![p] = Append(@, "get_all_values")]
     /\ failed' = [failed EXCEPT ![p] =
                     (@ \cup (IF read_ok THEN {} ELSE {"read"}))
                        \cup (IF prepared.ok THEN {} ELSE {"prepare"})]
     \* the frame of fetch_weather_data is gone
     /\ attempt' = [attempt EXCEPT ![p] = 0]
     /\ sleeps' = [sleeps EXCEPT ![p] = << >>]
     /\ outcomes' = [outcomes EXCEPT ![p] = << >>]

\* lines 62-74: the sheet is read
ReadExisting(p) ==
  /\ pc[p] = "read"
  /\ Prepare(p, get_existing_timestamps(sheet), TRUE)
  /\ UNCHANGED << state_file, sheet, clock, runs, begin_vars, requests,
                  weather_data, upload_vars, saves, result >>

\* lines 75-77: get_all_values raises, the error is logged, set() is returned
ReadExistingFails(p) ==
  /\ pc[p] = "read"
  /\ Prepare(p, {}, FALSE)
  /\ UNCHANGED << state_file, sheet, clock, runs, begin_vars, requests,
                  weather_data, upload_vars, saves, result >>

(***************************************************************************)
(* upload_to_sheets (lines 217-253), one action per call on the sheet.     *)
(***************************************************************************)
row_count(all_values) == Len(all_values)

row_values(all_values, r) == IF r <= Len(all_values) THEN all_values[r] ELSE << >>

\* SheetIsEmpty never finding the sheet empty: no header is written
SheetIsEmpty_Never(all_values) == row_count(all_values) < 0

\* line 231
SheetIsEmpty(all_values) ==
  row_count(all_values) = 0 \/ Len(row_values(all_values, 1)) = 0

\* UploadHeaderPresent going on to append_row: the header is written whatever
\* the sheet holds
UploadHeaderPresent_WritesHeader(p) ==
  /\ pc[p] = "header"
  /\ ~ SheetIsEmpty(sheet)
  /\ io' = [io EXCEPT ![p] = Append(@, "row_values")]
  /\ i' = [i EXCEPT ![p] = 0]
  /\ pc' = [pc EXCEPT ![p] = "append_header"]
  /\ UNCHANGED << state_file, sheet, clock, runs, begin_vars, fetch_vars,
                  prepare_vars, chunks, failed, saves, result >>

\* line 231: the sheet has rows, no header is written
UploadHeaderPresent(p) ==
  /\ pc[p] = "header"
  /\ ~ SheetIsEmpty(sheet)
  /\ io' = [io EXCEPT ![p] = Append(@, "row_values")]
  /\ i' = [i EXCEPT ![p] = 0]
  /\ pc' = [pc EXCEPT ![p] = "batch"]
  /\ UNCHANGED << state_file, sheet, clock, runs, begin_vars, fetch_vars,
                  prepare_vars, chunks, failed, saves, result >>

\* line 231: the sheet is found empty
UploadHeaderMissing(p) ==
  /\ pc[p] = "header"
  /\ SheetIsEmpty(sheet)
  /\ io' = [io EXCEPT ![p] = Append(@, "row_values")]
  /\ pc' = [pc EXCEPT ![p] = "append_header"]
  /\ UNCHANGED << state_file, sheet, clock, runs, begin_vars, fetch_vars,
                  prepare_vars, upload_vars, failed, saves, result >>

\* line 232
UploadHeader(p) ==
  /\ pc[p] = "append_header"
  /\ sheet' = Append(sheet, headers)
  /\ io' = [io EXCEPT ![p] = Append(@, "append_row")]
  /\ i' = [i EXCEPT ![p] = 0]
  /\ pc' = [pc EXCEPT ![p] = "batch"]
  /\ UNCHANGED << state_file, clock, runs, begin_vars, fetch_vars,
                  prepare_vars, chunks, failed, saves, result >>

Min(a, b) == IF a < b THEN a ELSE b

\* rows[i:i + batch_size]
Batch(all_rows, from) == SubSeq(all_rows, from + 1, Min(from + batch_size, Len(all_rows)))

\* UploadBatch sleeping after every batch, the last included
UploadBatch_PausesAfterLast(p) ==
  /\ pc[p] = "batch"
  /\ sheet' = sheet \o Batch(rows[p], i[p])
  /\ chunks' = [chunks EXCEPT ![p] = Append(@, Len(Batch(rows[p], i[p])))]
  /\ i' = [i EXCEPT ![p] = @ + batch_size]
  /\ io' = [io EXCEPT ![p] = @ \o << "append_rows", "sleep" >>]
  /\ pc' = [pc EXCEPT ![p] = IF i[p] + batch_size < Len(rows[p]) THEN "batch" ELSE "save"]
  /\ UNCHANGED << state_file, clock, runs, begin_vars, fetch_vars,
                  prepare_vars, failed, saves, result >>

\* lines 239-250: one pass of the loop; after the last batch True is returned
UploadBatch(p) ==
  /\ pc[p] = "batch"
  /\ sheet' = sheet \o Batch(rows[p], i[p])
  /\ chunks' = [chunks EXCEPT ![p] = Append(@, Len(Batch(rows[p], i[p])))]
  /\ i' = [i EXCEPT ![p] = @ + batch_size]
  /\ IF i[p] + batch_size < Len(rows[p])
       THEN /\ io' = [io EXCEPT ![p] = @ \o << "append_rows", "sleep" >>]
            /\ UNCHANGED pc
       ELSE /\ io' = [io EXCEPT ![p] = Append(@, "append_rows")]
            /\ pc' = [pc EXCEPT ![p] = "save"]
  /\ UNCHANGED << state_file, clock, runs, begin_vars, fetch_vars,
                  prepare_vars, failed, saves, result >>

\* UploadFails with the except clause returning True
UploadFails_ReturnsTrue(p) ==
  /\ pc[p] \in {"header", "append_header", "batch"}
  /\ io' = [io EXCEPT ![p] = Append(@, "append_rows")]
  /\ failed' = [failed EXCEPT ![p] = @ \cup {"write"}]
  /\ pc' = [pc EXCEPT ![p] = "save"]
  /\ UNCHANGED << state_file, sheet, clock, runs, begin_vars, fetch_vars,
                  prepare_vars, upload_vars, saves, result >>

\* lines 251-253: a call on the sheet raises, upload_to_sheets returns False
UploadFails(p) ==
  /\ pc[p] \in {"header", "append_header", "batch"}
  /\ io' = [io EXCEPT ![p] =
              Append(@, CASE pc[p] = "header" -> "row_values"
                          [] pc[p] = "append_header" -> "append_row"
                          [] OTHER -> "append_rows")]
  /\ ReturnFalse(p, "write")
  /\ UNCHANGED << state_file, sheet, clock, runs, begin_vars, fetch_vars,
                  prepare_vars, upload_vars, saves >>

(***************************************************************************)
(* run() lines 324-344 with save_state (lines 49-56).                      *)
(***************************************************************************)
\* lines 326-329 and 336
NewState(p) ==
  IF mode[p] = "initial"
    THEN StateRecord(FALSE, clock)
    ELSE [state[p] EXCEPT !.last_run = clock]

\* what etl_state.json holds after save_state: the state; or, when open()
\* raises, what it held; or, when the write raises after open(.., 'w') has
\* truncated the file, a file that is no JSON
save_state(file, new_state, outcome) ==
  CASE outcome = "saved" -> new_state
    [] outcome = "open_raises" -> file
    [] OTHER -> FileUnparseable

SaveOutcomes == {"saved", "open_raises", "write_raises"}

\* success is True: the state is updated and saved, run() returns True
SaveAndReturn(p) ==
  /\ pc[p] = "save"
  /\ \E outcome \in SaveOutcomes :
       /\ state_file' = save_state(state_file, NewState(p), outcome)
       /\ failed' = [failed EXCEPT ![p] =
                       @ \cup (IF outcome = "saved" THEN {} ELSE {"save"})]
  /\ state' = [state EXCEPT ![p] = NewState(p)]
  /\ saves' = [saves EXCEPT ![p] = @ + 1]
  /\ io' = [io EXCEPT ![p] = Append(@, "save_state")]
  /\ result' = [result EXCEPT ![p] = "success"]
  /\ pc' = [pc EXCEPT ![p] = "done"]
  /\ UNCHANGED << sheet, clock, runs, state_before, mode,
                  fetch_vars, prepare_vars, upload_vars >>

\* main, lines 361-365: the exit status of the process
ExitStatus(res) == IF res = "success" THEN 0 ELSE 1

\* the process ends; its memory is gone
Exit(p) ==
  /\ pc[p] = "done"
  /\ pc' = [pc EXCEPT ![p] = "idle"]
  /\ state' = [state EXCEPT ![p] = DefaultState]
  /\ state_before' = [state_before EXCEPT ![p] = FileAbsent]
  /\ mode' = [mode EXCEPT ![p] = "none"]
  /\ attempt' = [attempt EXCEPT ![p] = 0]
  /\ requests' = [requests EXCEPT ![p] = << >>]
  /\ sleeps' = [sleeps EXCEPT ![p] = << >>]
  /\ outcomes' = [outcomes EXCEPT ![p] = << >>]
  /\ weather_data' = [weather_data EXCEPT ![p] = NoData]
  /\ existing_timestamps' = [existing_timestamps EXCEPT ![p] = {}]
  /\ rows' = [rows EXCEPT ![p] = << >>]
  /\ i' = [i EXCEPT ![p] = 0]
  /\ chunks' = [chunks EXCEPT ![p] = << >>]
  /\ io' = [io EXCEPT ![p] = << >>]
  /\ failed' = [failed EXCEPT ![p] = {}]
  /\ saves' = [saves EXCEPT ![p] = 0]
  /\ result' = [result EXCEPT ![p] = "none"]
  /\ UNCHANGED << state_file, sheet, clock, runs >>

\* one step of invocation p after it has started
Step(p) ==
  \/ SetupFails(p)
  \/ SetupOkCrash(p)
  \/ SetupOk(p)
  \/ FetchHttpError(p)
  \/ FetchBadJson(p)
  \/ FetchInvalid(p)
  \/ FetchOk(p)
  \/ ReadExisting(p)
  \/ ReadExistingFails(p)
  \/ UploadHeaderPresent(p)
  \/ UploadHeaderMissing(p)
  \/ UploadHeader(p)
  \/ UploadBatch(p)
  \/ UploadFails(p)
  \/ SaveAndReturn(p)
  \/ Exit(p)

\* The scheduler starts the invocations one after the other: the next one
\* begins when the last one has exited, so one process slot is ever in use.
Next ==
  \/ RunStart("p1")
  \/ Step("p1")

Spec == Init /\ [][Next]_vars

(***************************************************************************)
(* prepare_data on its own: the de-duplication applied to any short time   *)
(* series (timestamps may repeat, temperatures may be missing) and any set *)
(* of existing timestamps, then applied again to its own output, and       *)
(* applied again to the input once the output's timestamps are existing.   *)
(***************************************************************************)
\* longest time series drawn
MaxObs == 2

DedupHours == {1, 2, 3}

SeriesOver(cells) == UNION {[1..n -> cells] : n \in 0..MaxObs}

\* a body with the given time series and temperatures
SeriesPayload(times, temperatures) ==
  [timezone |-> "Asia/Kolkata",
   hourly |-> [time |-> times,
               temperature_2m |-> temperatures,
               relative_humidity_2m |-> Const(Len(times), 50),
               visibility |-> Const(Len(times), NoneVal),
               weathercode |-> Const(Len(times), 3),
               precipitation |-> Const(Len(times), 1)]]

\* prepared rows read back as a body: column c of the rows is array c
AsPayload(some_rows) ==
  [timezone |-> "Asia/Kolkata",
   hourly |-> [time |-> [k \in 1..Len(some_rows) |-> some_rows[k][1]],
               temperature_2m |-> [k \in 1..Len(some_rows) |-> some_rows[k][2]],
               relative_humidity_2m |-> [k \in 1..Len(some_rows) |-> some_rows[k][3]],
               visibility |-> [k \in 1..Len(some_rows) |-> some_rows[k][4]],
               weathercode |-> [k \in 1..Len(some_rows) |-> some_rows[k][5]],
               precipitation |-> [k \in 1..Len(some_rows) |-> some_rows[k][6]]]]

Timestamps(some_rows) == {some_rows[k][1] : k \in 1..Len(some_rows)}

InitDedup ==
  /\ state_file = FileAbsent
  /\ sheet = << >>
  /\ clock = 0
  /\ runs = 0
  /\ \E times \in SeriesOver({Time(h) : h \in DedupHours}) :
       \E temperatures \in [1..Len(times) -> {20, NoneVal}] :
         \E existing \in SUBSET {Time(h) : h \in DedupHours} :
           /\ pc = [p \in Procs |-> IF p = "p1" THEN "raw" ELSE "idle"]
           /\ weather_data =
                [p \in Procs |-> IF p = "p1" THEN SeriesPayload(times, temperatures)
                                 ELSE NoData]
           /\ existing_timestamps = [p \in Procs |-> IF p = "p1" THEN existing ELSE {}]
  /\ state = [p \in Procs |-> DefaultState]
  /\ state_before = [p \in Procs |-> FileAbsent]
  /\ mode = [p \in Procs |-> "none"]
  /\ attempt = [p \in Procs |-> 0]
  /\ requests = [p \in Procs |-> << >>]
  /\ sleeps = [p \in Procs |-> << >>]
  /\ outcomes = [p \in Procs |-> << >>]
  /\ rows = [p \in Procs |-> << >>]
  /\ i = [p \in Procs |-> 0]
  /\ chunks = [p \in Procs |-> << >>]
  /\ io = [p \in Procs |-> << >>]
  /\ failed = [p \in Procs |-> {}]
  /\ saves = [p \in Procs |-> 0]
  /\ result = [p \in Procs |-> "none"]

\* rows = prepare_data(weather_data, existing_timestamps)
DedupPrepare(p) ==
  /\ pc[p] \in {"raw", "refed", "absorbed"}
  /\ rows' = [rows EXCEPT ![p] =
                prepare_data(weather_data[p], existing_timestamps[p], clock).rows]
  /\ pc' = [pc EXCEPT ![p] = CASE pc[p] = "raw" -> "prepared"
                               [] pc[p] = "refed" -> "reprepared"
                               [] OTHER -> "emptied"]
  /\ UNCHANGED << state_file, sheet, clock, runs, begin_vars, attempt, requests,
                  sleeps, outcomes, weather_data, existing_timestamps,
                  upload_vars, io, failed, saves, result >>

\* the output becomes the input
DedupRefeed(p) ==
  /\ pc[p] = "prepared"
  /\ weather_data' = [weather_data EXCEPT ![p] = AsPayload(rows[p])]
  /\ pc' = [pc EXCEPT ![p] = "refed"]
  /\ UNCHANGED << state_file, sheet, clock, runs, begin_vars, attempt, requests,
                  sleeps, outcomes, prepare_vars, upload_vars, io, failed,
                  saves, result >>

\* the timestamps of the output become existing timestamps
DedupAbsorb(p) ==
  /\ pc[p] = "prepared"
  /\ existing_timestamps' =
       [existing_timestamps EXCEPT ![p] = @ \cup Timestamps(rows[p])]
  /\ pc' = [pc EXCEPT ![p] = "absorbed"]
  /\ UNCHANGED << state_file, sheet, clock, runs, begin_vars, fetch_vars, rows,
                  upload_vars, io, failed, saves, result >>

NextDedup ==
  \/ DedupPrepare("p1")
  \/ DedupRefeed("p1")
  \/ DedupAbsorb("p1")

SpecDedup == InitDedup /\ [][NextDedup]_vars

(***************************************************************************)
(* prepare_data on its own, over provider arrays of every shape: each of   *)
(* the five data arrays is complete, holds nulls, is shorter than the time *)
(* series or is missing, independently of the others.                      *)
(***************************************************************************)
\* what the provider may send as the array of a field whose values are v,
\* next to a time series of n hours
ArrayShapes(n, v) ==
  {Const(n, v), Const(n, NoneVal), Const(n - 1, v), << >>,
   << NoneVal >> \o Const(n - 1, v), Const(n - 1, v) \o << NoneVal >>}

\* a body with the given hourly arrays
ArraysPayload(times, temperatures, humidity, visibility, weather_codes, precipitation) ==
  [timezone |-> "Asia/Kolkata",
   hourly |-> [time |-> times,
               temperature_2m |-> temperatures,
               relative_humidity_2m |-> humidity,
               visibility |-> visibility,
               weathercode |-> weather_codes,
               precipitation |-> precipitation]]

\* the first slot holds v, the other slot is at rest
Only(v, rest) == [p \in Procs |-> IF p = "p1" THEN v ELSE rest]

InitNormalize ==
  /\ state_file = FileAbsent
  /\ sheet = << >>
  /\ clock = 0
  /\ runs = 0
  /\ pc = Only("arrays", "idle")
  /\ \E temperatures \in ArrayShapes(MaxObs, 20), humidity \in ArrayShapes(MaxObs, 50),
        visibility \in ArrayShapes(MaxObs, 10000),
        weather_codes \in ArrayShapes(MaxObs, 3),
        precipitation \in ArrayShapes(MaxObs, 1) :
       weather_data =
         Only(ArraysPayload(Hours(1, MaxObs), temperatures, humidity, visibility,
                            weather_codes, precipitation), NoData)
  /\ existing_timestamps \in {Only({}, {}), Only({Time(1)}, {})}
  /\ state = [p \in Procs |-> DefaultState]
  /\ state_before = [p \in Procs |-> FileAbsent]
  /\ mode = [p \in Procs |-> "none"]
  /\ attempt = [p \in Procs |-> 0]
  /\ requests = [p \in Procs |-> << >>]
  /\ sleeps = [p \in Procs |-> << >>]
  /\ outcomes = [p \in Procs |-> << >>]
  /\ rows = [p \in Procs |-> << >>]
  /\ i = [p \in Procs |-> 0]
  /\ chunks = [p \in Procs |-> << >>]
  /\ io = [p \in Procs |-> << >>]
  /\ failed = [p \in Procs |-> {}]
  /\ saves = [p \in Procs |-> 0]
  /\ result = [p \in Procs |-> "none"]

\* rows = prepare_data(weather_data, existing_timestamps); None is recorded
\* as a failed stage
NormalizePrepare(p) ==
  /\ pc[p] = "arrays"
  /\ \E prepared \in {prepare_data(weather_data[p], existing_timestamps[p], clock)} :
       /\ rows' = [rows EXCEPT ![p] = prepared.rows]
       /\ failed' = [failed EXCEPT ![p] =
                       @ \cup (IF prepared.ok THEN {} ELSE {"prepare"})]
  /\ pc' = [pc EXCEPT ![p] = "normalized"]
  /\ UNCHANGED << state_file, sheet, clock, runs, begin_vars, fetch_vars,
                  existing_timestamps, upload_vars, io, saves, result >>

NextNormalize == NormalizePrepare("p1")

SpecNormalize == InitNormalize /\ [][NextNormalize]_vars

(***************************************************************************)
(* Two invocations on the same sheet and state file with nothing to keep   *)
(* them apart (a scheduler that starts a run before the last has ended):   *)
(* their steps interleave in any order. Every call of both succeeds; each  *)
(* slot runs one invocation.                                               *)
(***************************************************************************)
\* what a first run at time 1 that loaded the one hour 1 left in the sheet
LoadedSheet == << headers, Row(FullPayload(1, 1).hourly, 1, 1) >>

\* a fresh deployment, or the state after that first run
InitOverlap ==
  /\ \/ /\ state_file = FileAbsent
        /\ sheet = << >>
        /\ clock = 0
     \/ /\ state_file = StateRecord(FALSE, 1)
        /\ sheet = LoadedSheet
        /\ clock = 1
  /\ runs = 0
  /\ NoProcess

NextOverlap ==
  \E p \in Procs :
    \/ RunStart(p)
    \/ SetupOk(p)
    \/ FetchOk(p)
    \/ ReadExisting(p)
    \/ UploadHeaderPresent(p)
    \/ UploadHeaderMissing(p)
    \/ UploadHeader(p)
    \/ UploadBatch(p)
    \/ SaveAndReturn(p)

SpecOverlap == InitOverlap /\ [][NextOverlap]_vars

(***************************************************************************)
(* upload_to_sheets on its own: an incremental run that has fetched a      *)
(* complete payload of any length up to MaxChunks batches, over a sheet    *)
(* that is empty, holds the header only, or holds a first load; any call   *)
(* on the sheet may fail.                                                  *)
(***************************************************************************)
\* most batches a write takes
MaxChunks == 3

\* the lengths of the fetched time series: around every multiple of a batch
UploadLens ==
  {batch_size * a + b : a \in 0..(MaxChunks - 1), b \in {1, batch_size - 1, batch_size}}

\* fetch_weather_data has returned, the sheet is about to be read
InitUpload ==
  /\ state_file = StateRecord(FALSE, 1)
  /\ sheet \in {<< >>, << headers >>, LoadedSheet}
  /\ clock = 2
  /\ runs = 1
  /\ pc = Only("read", "idle")
  /\ state = Only(StateRecord(FALSE, 1), DefaultState)
  /\ state_before = Only(StateRecord(FALSE, 1), FileAbsent)
  /\ mode = Only("incremental", "none")
  /\ attempt = [p \in Procs |-> 0]
  /\ requests = Only(<< Request([start_date |-> 0, end_date |-> 0, forecast_days |-> 2]) >>, << >>)
  /\ sleeps = [p \in Procs |-> << >>]
  /\ outcomes = Only(<< "full" >>, << >>)
  /\ \E lo \in WindowStarts, n \in UploadLens :
       weather_data = Only(FullPayload(lo, n), NoData)
  /\ existing_timestamps = [p \in Procs |-> {}]
  /\ rows = [p \in Procs |-> << >>]
  /\ i = [p \in Procs |-> 0]
  /\ chunks = [p \in Procs |-> << >>]
  /\ io = Only(<< "get" >>, << >>)
  /\ failed = [p \in Procs |-> {}]
  /\ saves = [p \in Procs |-> 0]
  /\ result = [p \in Procs |-> "none"]

NextUpload ==
  \/ ReadExisting("p1")
  \/ UploadHeaderPresent("p1")
  \/ UploadHeaderMissing("p1")
  \/ UploadHeader("p1")
  \/ UploadBatch("p1")
  \/ UploadFails("p1")

SpecUpload == InitUpload /\ [][NextUpload]_vars

(***************************************************************************)
(* Properties.                                                             *)
(***************************************************************************)
\* the rows of the sheet below a header cell "Time" are data rows
DataRowIndexes(all_values) ==
  {r \in 1..Len(all_values) : all_values[r][1] # headers[1]}

\* the invocation has returned from run()
Returned(p) == pc[p] = "done"

\* C1: after any sequence of invocations that do not overlap, whatever fails
\* in them, no two data rows of the sheet carry the same timestamp (every
\* payload of the model has pairwise distinct timestamps).
C1_UniqueTimestamps ==
  Cardinality({sheet[r][1] : r \in DataRowIndexes(sheet)})
    = Cardinality(DataRowIndexes(sheet))

\* the steps whose failure ends the run: credentials / open of the sheet,
\* the fetch, the write
BlockingSteps == {"setup", "fetch", "write"}

\* C2: a run that fails at a blocking step returns False, main exits with a
\* status other than 0, and etl_state.json is what it was when the run began.
C2_FailureLeavesState ==
  \A p \in Procs :
    (Returned(p) /\ failed[p] \cap BlockingSteps # {})
      => /\ result[p] = "failure"
         /\ ExitStatus(result[p]) # 0
         /\ saves[p] = 0
         /\ state_file = state_before[p]

\* a write failed after a batch had been appended, in a run that began with
\* a saved state
C2_Witness ==
  \E p \in Procs :
    /\ Returned(p)
    /\ "write" \in failed[p]
    /\ chunks[p] # << >>
    /\ state_before[p].kind = "dict"

\* C3: no failure of reading the existing timestamps, of prepare_data, of the
\* write or of save_state is discarded: such a run returns False, and a run
\* that returns True had no failing stage.
C3_NoErrorDiscarded ==
  \A p \in Procs :
    Returned(p)
      => /\ (failed[p] \cap {"read", "prepare", "write", "save"} # {}
               => result[p] = "failure")
         /\ (result[p] = "success" => failed[p] = {})

\* C4: every request of a run whose loaded state has first_run = true goes to
\* the archive endpoint with a start and an end date; every request of a run
\* whose loaded state has first_run = false goes to the forecast endpoint.
C4_RunModeSelectsEndpoint ==
  \A p \in Procs :
    \A k \in DOMAIN requests[p] :
      LET loaded == load_state(state_before[p])
          request == requests[p][k]
      IN /\ loaded.kind = "dict"
         /\ loaded.first_run
              => /\ request.url = ARCHIVE
                 /\ request.start_date # 0
                 /\ request.end_date # 0
         /\ ~ loaded.first_run
              => /\ request.url = FORECAST
                 /\ request.start_date = 0
                 /\ request.end_date = 0

\* an incremental run has issued its third request
C4_Witness ==
  \E p \in Procs :
    /\ Len(requests[p]) = 3
    /\ ~ load_state(state_before[p]).first_run

Backfilled(file) == file.kind = "dict" /\ ~ file.first_run

\* C5: the persisted state becomes Backfilled only by a successful first run,
\* and a Backfilled state stays Backfilled whatever later runs do.
C5_TwoStateMachine ==
  [][ /\ Backfilled(state_file) => Backfilled(state_file')
      /\ (~ Backfilled(state_file) /\ Backfilled(state_file'))
           => \E p \in Procs : mode[p] = "initial" /\ result'[p] = "success"
    ]_vars

\* C6: when run() returns True the state file holds first_run = false and
\* last_run = the time of this run, and it was written exactly once.
C6_SuccessPersistsState ==
  \A p \in Procs :
    (Returned(p) /\ result[p] = "success")
      => /\ state_file = StateRecord(FALSE, clock)
         /\ saves[p] = 1

\* C7: fetch_weather_data issues at most 3 requests; after a transient failure
\* of the first attempt it sleeps 1s, of the second 2s, and tries again; after
\* a transient failure of the third it returns None; the first valid response
\* is returned without a further request.
C7_FetchRetries ==
  \A p \in Procs :
    /\ Len(requests[p]) <= 3
    /\ pc[p] = "fetch" => Len(requests[p]) < 3 /\ Len(outcomes[p]) = Len(requests[p])
    /\ \A k \in DOMAIN outcomes[p] :
         /\ (outcomes[p][k] \in TransientErrors /\ k < 3)
              => /\ Len(sleeps[p]) >= k
                 /\ sleeps[p][k] = << 1, 2 >>[k]
                 /\ (Len(outcomes[p]) = k => pc[p] = "fetch")
         /\ (outcomes[p][k] \in TransientErrors /\ k = 3)
              => /\ Returned(p)
                 /\ result[p] = "failure"
                 /\ sleeps[p] = << 1, 2 >>
         /\ outcomes[p][k] \in {"full", "sparse", "null_array"}
              => /\ k = Len(outcomes[p])
                 /\ Len(requests[p]) = k
                 /\ Len(sleeps[p]) = k - 1
                 /\ pc[p] = "read"
    /\ (/\ Returned(p)
        /\ outcomes[p] # << >>
        /\ outcomes[p][Len(outcomes[p])] \in TransientErrors)
         => Len(requests[p]) = 3

\* the third attempt succeeds after a timeout and a 5xx
C7_Witness ==
  \E p \in Procs :
    /\ pc[p] = "read"
    /\ outcomes[p] = << "timeout", "http5xx", "full" >>
    /\ sleeps[p] = << 1, 2 >>

NonTransient == {"http4xx", "bad_json"}

\* C8: a 4xx status or an unparseable body at the first attempt makes
\* fetch_weather_data return None after that one request, without a sleep.
C8_NonTransientFailsImmediately ==
  \A p \in Procs :
    (outcomes[p] # << >> /\ outcomes[p][1] \in NonTransient)
      => /\ Len(requests[p]) = 1
         /\ sleeps[p] = << >>
         /\ Returned(p)
         /\ result[p] = "failure"

\* C9: a body without hourly section or without a non-empty hourly time array
\* is not retried, the run fails, nothing is written to the sheet and the
\* state file is left as it was.
C9_InvalidResponseIsFatal ==
  \A p \in Procs :
    \A k \in DOMAIN outcomes[p] :
      outcomes[p][k] \in InvalidShapes
        => /\ Len(requests[p]) = k
           /\ Len(sleeps[p]) = k - 1
           /\ Returned(p)
           /\ result[p] = "failure"
           /\ ExitStatus(result[p]) # 0
           /\ "fetch" \in failed[p]
           /\ chunks[p] = << >>
           /\ \A e \in DOMAIN io[p] : io[p][e] = "get"
           /\ saves[p] = 0
           /\ state_file = state_before[p]

\* a run over a sheet that has rows got an empty hourly time array
C9_Witness ==
  \E p \in Procs :
    /\ Returned(p)
    /\ outcomes[p] = << "empty_time" >>
    /\ sheet # << >>
    /\ state_before[p].kind = "dict"

Provided(hourly, key, k) ==
  /\ key \in DOMAIN hourly
  /\ hourly[key] # NullArray
  /\ k \in DOMAIN hourly[key]
  /\ hourly[key][k] # NoneVal

\* the index of a timestamp in a time series without repeated timestamps
IndexOf(times, timestamp) == CHOOSE k \in DOMAIN times : times[k] = timestamp

\* C11: prepare_data raises no error on arrays shorter than the time series,
\* and every row it returns has its six data fields defined: temperature and
\* humidity are the provider's values; visibility, weather code and
\* precipitation are the provider's values where the provider sent one and
\* 24000, 0 and 0 where it did not (null, index out of range, no array).
C11_SchemaComplete ==
  \A p \in Procs :
    pc[p] = "normalized"
      => /\ "prepare" \notin failed[p]
         /\ \A r \in DOMAIN rows[p] :
              LET row == rows[p][r]
                  hourly == weather_data[p].hourly
                  k == IndexOf(hourly.time, row[1])
              IN /\ Len(row) = 7
                 /\ \A c \in 2..6 : row[c] # NoneVal
                 /\ Provided(hourly, "temperature_2m", k)
                 /\ row[2] = hourly.temperature_2m[k]
                 /\ Provided(hourly, "relative_humidity_2m", k)
                 /\ row[3] = hourly.relative_humidity_2m[k]
                 /\ row[4] = IF Provided(hourly, "visibility", k)
                               THEN hourly.visibility[k] ELSE 24000
                 /\ row[5] = IF Provided(hourly, "weathercode", k)
                               THEN hourly.weathercode[k] ELSE 0
                 /\ row[6] = IF Provided(hourly, "precipitation", k)
                               THEN hourly.precipitation[k] ELSE 0

\* a row was made of the last hour with the visibility array one short, the
\* weather codes null and the precipitation sent
C11_Witness ==
  \E p \in Procs :
    /\ pc[p] = "normalized"
    /\ Len(weather_data[p].hourly.visibility) = MaxObs - 1
    /\ weather_data[p].hourly.weathercode = Const(MaxObs, NoneVal)
    /\ rows[p] # << >>
    /\ rows[p][Len(rows[p])] = << Time(MaxObs), 20, 50, 24000, 0, 1, clock >>

\* C12 as the specification states it: a record whose timestamp is not in the
\* table is dropped exactly when both its temperature and its humidity are
\* absent.
C12_DropsOnlyWhenBothAbsent ==
  \A p \in Procs :
    pc[p] = "normalized"
      => \A k \in DOMAIN weather_data[p].hourly.time :
           LET hourly == weather_data[p].hourly
           IN hourly.time[k] \notin existing_timestamps[p]
                => (hourly.time[k] \notin Timestamps(rows[p])
                      <=> (/\ ~ Provided(hourly, "temperature_2m", k)
                           /\ ~ Provided(hourly, "relative_humidity_2m", k)))

\* C12: a record whose timestamp is not in the table is dropped exactly when
\* its temperature or its humidity is absent; a record with both absent is
\* never in the output, and a record with both present is kept.
C12_DropsWhenEitherAbsent ==
  \A p \in Procs :
    pc[p] = "normalized"
      => \A k \in DOMAIN weather_data[p].hourly.time :
           LET hourly == weather_data[p].hourly
           IN hourly.time[k] \notin existing_timestamps[p]
                => (hourly.time[k] \notin Timestamps(rows[p])
                      <=> (\/ ~ Provided(hourly, "temperature_2m", k)
                           \/ ~ Provided(hourly, "relative_humidity_2m", k)))

\* the first hour has a temperature and no humidity and was dropped, the last
\* hour has both and was kept
C12_Witness ==
  \E p \in Procs :
    /\ pc[p] = "normalized"
    /\ existing_timestamps[p] = {}
    /\ weather_data[p].hourly.temperature_2m = Const(MaxObs, 20)
    /\ weather_data[p].hourly.relative_humidity_2m = << NoneVal >> \o Const(MaxObs - 1, 50)
    /\ Time(1) \notin Timestamps(rows[p])
    /\ Time(MaxObs) \in Timestamps(rows[p])

\* the invocation, none of whose writes failed, has appended the header row
WroteHeader(p) == \E e \in DOMAIN io[p] : io[p][e] = "append_row"

\* the rows of the sheet that were there when invocation p, which has written
\* all its rows and nothing else since, read the sheet
TableBefore(p) ==
  SubSeq(sheet, 1, Len(sheet) - Len(rows[p]) - (IF WroteHeader(p) THEN 1 ELSE 0))

\* the rows invocation p has appended below them, the header left out
Appended(p) == SubSeq(sheet, Len(sheet) - Len(rows[p]) + 1, Len(sheet))

\* the indexes of the fetched records that are usable and whose timestamp is
\* not among the given ones, in the order of the time series
NewRecords(hourly, timestamps) ==
  SelectSeq([k \in 1..Len(hourly.time) |-> k],
            LAMBDA k : /\ hourly.time[k] \notin timestamps
                       /\ Provided(hourly, "temperature_2m", k)
                       /\ Provided(hourly, "relative_humidity_2m", k))

\* C13: when an incremental run has returned True, the data rows it appended
\* are the usable fetched records whose timestamp was not in a data row of the
\* sheet when the run read it, one row per record, in the order of the fetched
\* time series.
C13_AppendsExactlyNewRecords ==
  \A p \in Procs :
    (Returned(p) /\ result[p] = "success" /\ mode[p] = "incremental")
      => LET before == TableBefore(p)
             fresh == NewRecords(weather_data[p].hourly,
                                 {before[r][1] : r \in DataRowIndexes(before)})
         IN /\ Appended(p) = rows[p]
            /\ [r \in 1..Len(rows[p]) |-> rows[p][r][1]]
                 = [r \in 1..Len(fresh) |-> weather_data[p].hourly.time[fresh[r]]]

\* the rows of the sheet that are a header row
HeaderRowIndexes(all_values) ==
  {r \in 1..Len(all_values) : all_values[r][1] = headers[1]}

\* C14: in runs that do not overlap, starting from an empty sheet, the sheet
\* never holds more than one header row, and a header row is appended only to
\* a sheet that has no row (or an empty first row) and no header.
C14_HeaderOnce ==
  /\ [](Cardinality(HeaderRowIndexes(sheet)) <= 1)
  /\ [][(Len(sheet') > Len(sheet) /\ sheet'[Len(sheet) + 1][1] = headers[1])
          => /\ Len(sheet) = 0 \/ sheet[1] = << >>
             /\ HeaderRowIndexes(sheet) = {}
       ]_vars

\* a later run has appended its rows below the header an earlier run wrote
C14_Witness ==
  \E p \in Procs :
    /\ pc[p] = "save"
    /\ chunks[p] # << >>
    /\ ~ WroteHeader(p)
    /\ sheet[1] = headers
    /\ Len(sheet) > 1 + Len(rows[p])

\* s is an initial segment of t
IsPrefix(s, t) == Len(s) <= Len(t) /\ s = SubSeq(t, 1, Len(s))

\* the append_rows calls that write n rows, with the pauses between them
AppendCalls(n) ==
  [e \in 1..(2 * ((n + 99) \div 100) - 1) |->
     IF e % 2 = 1 THEN "append_rows" ELSE "sleep"]

\* the external calls of a first run that writes n rows to an empty sheet
FirstRunCalls(n) ==
  << "get", "get_all_values", "row_values", "append_row" >>
    \o AppendCalls(n) \o << "save_state" >>

\* the first invocation of a fresh deployment (no state file, empty sheet),
\* no call of which has failed so far
FirstRunSucceeding(p) ==
  /\ pc[p] # "idle"
  /\ runs = 1
  /\ state_before[p] = FileAbsent
  /\ failed[p] = {}
  /\ result[p] # "crashed"
  /\ Len(requests[p]) <= 1
  /\ \A k \in DOMAIN outcomes[p] : outcomes[p][k] \notin HttpErrors \cup {"bad_json"}

\* C15: in a first run without a state file, on an empty sheet, in which every
\* call succeeds and N > 0 rows are prepared: the one request goes to the
\* archive for today - 7 .. today - 1; then the sheet is read, the header is
\* appended to the empty sheet, the N rows are appended below it in batches,
\* and only then etl_state.json is written, once, as first_run = false,
\* last_run = now. Until then the state file stays absent.
C15_FirstRunOrder ==
  \A p \in Procs :
    FirstRunSucceeding(p)
      => /\ \A k \in DOMAIN requests[p] :
              requests[p][k] = [url |-> ARCHIVE, start_date |-> Today - 7,
                                end_date |-> Today - 1, forecast_days |-> 0]
         /\ pc[p] \in {"setup", "fetch"} => io[p] = << >>
         /\ pc[p] = "read" => io[p] = << "get" >>
         /\ pc[p] # "done" => state_file = FileAbsent /\ saves[p] = 0
         /\ rows[p] # << >>
              => /\ IsPrefix(io[p], FirstRunCalls(Len(rows[p])))
                 /\ IsPrefix(sheet, << headers >> \o rows[p])
                 /\ pc[p] = "save" => sheet = << headers >> \o rows[p]
                 /\ Returned(p)
                      => /\ io[p] = FirstRunCalls(Len(rows[p]))
                         /\ sheet = << headers >> \o rows[p]
                         /\ result[p] = "success"
                         /\ saves[p] = 1
                         /\ state_file = StateRecord(FALSE, clock)

\* a first run has loaded 101 hours in two batches and saved its state
C15_Witness ==
  \E p \in Procs :
    /\ FirstRunSucceeding(p)
    /\ Returned(p)
    /\ Len(rows[p]) = batch_size + 1
    /\ io[p] = << "get", "get_all_values", "row_values", "append_row",
                  "append_rows", "sleep", "append_rows", "save_state" >>
    /\ state_file = StateRecord(FALSE, clock)

\* C16: whatever etl_state.json is when a run begins - absent, no JSON, or
\* JSON that is no state record - the run does not die of it: unless the file
\* holds a state record the run goes on with the default state and, once the
\* sheet is open, as an initial load.
C16_LoadStateNeverFatal ==
  \A p \in Procs :
    (pc[p] # "idle" /\ state_before[p].kind # "dict")
      => /\ result[p] # "crashed"
         /\ pc[p] = "setup" => state[p] = DefaultState
         /\ (pc[p] # "setup" /\ "setup" \notin failed[p]) => mode[p] = "initial"

\* the timestamps of the data rows of the sheet
SheetTimestamps(all_values) ==
  {all_values[r][1] : r \in DataRowIndexes(all_values)}

\* no two data rows of the sheet carry the same timestamp, the timestamps of
\* the given set left aside
UniqueOutside(all_values, timestamps) ==
  Cardinality({r \in DataRowIndexes(all_values) : all_values[r][1] \notin timestamps})
    = Cardinality(SheetTimestamps(all_values) \ timestamps)

\* the timestamps every invocation has prepared a row for, its snapshot not
\* holding them
PreparedByAll ==
  (Timestamps(rows["p1"]) \ existing_timestamps["p1"])
    \cap (Timestamps(rows["p2"]) \ existing_timestamps["p2"])

\* positions of a call in the log of an invocation
Calls(p, call) == {e \in DOMAIN io[p] : io[p][e] = call}

\* C17: with two overlapping invocations a sheet with two data rows of the
\* same timestamp is reachable (the witness), and it comes from the
\* snapshots: each invocation reads the existing timestamps once, before its
\* first write, and never again; the snapshot holds timestamps of the sheet
\* only; and every duplicated timestamp is one that both invocations wrote,
\* each because its own snapshot did not hold it.
C17_DuplicatesFromSnapshots ==
  \A in_sheet \in {SheetTimestamps(sheet)}, by_all \in {PreparedByAll} :
    /\ \A p \in Procs :
         /\ Cardinality(Calls(p, "get_all_values")) <= 1
         /\ \A e \in Calls(p, "append_row") \cup Calls(p, "append_rows") :
              \E f \in Calls(p, "get_all_values") : f < e
         /\ existing_timestamps[p] \subseteq in_sheet
         /\ Timestamps(rows[p]) \cap existing_timestamps[p] = {}
    /\ UniqueOutside(sheet, by_all)

\* two incremental runs have both succeeded, and the sheet holds a timestamp
\* twice
C17_Witness ==
  /\ \A p \in Procs :
       /\ Returned(p)
       /\ mode[p] = "incremental"
       /\ result[p] = "success"
       /\ failed[p] = {}
  /\ Cardinality(SheetTimestamps(sheet)) < Cardinality(DataRowIndexes(sheet))

RECURSIVE Sum(_)
\* the sum of a sequence of numbers
Sum(ns) == IF ns = << >> THEN 0 ELSE ns[1] + Sum(Tail(ns))

\* C18: upload_to_sheets appends the rows in batches of at most 100 rows (100
\* but for the last), in order: the batches written so far are an initial
\* segment of the rows at the end of the sheet, and all the rows once it has
\* returned True. It sleeps once after every batch that is not the last, before
\* the next append_rows call, and not after the last: a write of n rows has
\* made ceil(n / 100) - 1 pauses, none for n <= 100.
C18_BatchedUpload ==
  \A p \in Procs :
    \A written \in {Sum(chunks[p])} :
      /\ \A c \in DOMAIN chunks[p] :
           /\ chunks[p][c] >= 1
           /\ chunks[p][c] <= 100
           /\ c < Len(chunks[p]) => chunks[p][c] = 100
      /\ written <= Len(rows[p])
      /\ SubSeq(sheet, Len(sheet) - written + 1, Len(sheet)) = SubSeq(rows[p], 1, written)
      /\ pc[p] = "save" => written = Len(rows[p])
      /\ \A e \in Calls(p, "sleep") : e > 1 /\ io[p][e - 1] = "append_rows"
      /\ Cardinality(Calls(p, "sleep"))
           = IF written = Len(rows[p]) /\ chunks[p] # << >>
               THEN Len(chunks[p]) - 1 ELSE Len(chunks[p])
      /\ (pc[p] = "save" /\ Len(rows[p]) <= 100) => Calls(p, "sleep") = {}
      /\ (pc[p] = "save" /\ rows[p] # << >>)
           => /\ Len(chunks[p]) = (Len(rows[p]) + 99) \div 100
              /\ io[p][Len(io[p])] = "append_rows"

\* 201 rows were written in three batches with two pauses
C18_Witness ==
  \E p \in Procs :
    /\ pc[p] = "save"
    /\ chunks[p] = << 100, 100, 1 >>
    /\ Cardinality(Calls(p, "sleep")) = 2
    /\ Len(sheet) > Len(rows[p])

\* C19: in runs that do not overlap, starting from an empty sheet, the sheet
\* is empty or its first row is the header and every row below it is a data
\* row of seven cells; so the timestamps get_existing_timestamps returns,
\* which skips the first row, are the timestamps of all the data rows.
C19_HeaderFirst ==
  /\ sheet # << >>
       => /\ HeaderRowIndexes(sheet) = {1}
          /\ \A r \in 2..Len(sheet) : Len(sheet[r]) = 7 /\ sheet[r][1] # ""
  /\ get_existing_timestamps(sheet) = SheetTimestamps(sheet)

\* a second run has appended rows below those of the first
C19_Witness ==
  /\ runs = 2
  /\ Len(sheet) > batch_size + 2
  /\ HeaderRowIndexes(sheet) = {1}
  /\ \E p \in Procs : pc[p] = "save" /\ rows[p] # << >> /\ ~ WroteHeader(p)

\* C20: no step of any run, failing or not, changes the sheet otherwise than
\* by appending rows to it, so the sheet before a run is an initial segment
\* of the sheet after it; and only an invocation that has prepared rows
\* writes: while an invocation has no rows it has called neither append_row
\* nor append_rows, and the sheet changes only in a step of an invocation that
\* has rows to upload.
C20_AppendOnly ==
  /\ [][IsPrefix(sheet, sheet')]_vars
  /\ [][sheet' # sheet
          => \E p \in Procs : rows[p] # << >> /\ pc[p] \in {"append_header", "batch"}
       ]_vars
  /\ [](\A p \in Procs :
          rows[p] = << >> => Calls(p, "append_row") \cup Calls(p, "append_rows") = {})

\* an incremental run found every fetched hour in the sheet and returned True
\* without a call that writes
C20_Witness ==
  \E p \in Procs :
    /\ Returned(p)
    /\ result[p] = "success"
    /\ failed[p] = {}
    /\ mode[p] = "incremental"
    /\ rows[p] = << >>
    /\ Len(sheet) > batch_size
    /\ io[p] = << "get", "get_all_values", "save_state" >>

====
